---- MODULE Spec2Model ----
(***************************************************************************)
(* A model of the sandboxed code-execution engine of open-interpreter:     *)
(*   - the stream bridge (DockerStreamWrapper) and its frame decoder,      *)
(*   - the session container life cycle (DockerProcWrapper) and its        *)
(*     teardown at interpreter exit (atexit_destroy),                      *)
(*   - the process driver (SubprocessCodeInterpreter.run and its readers). *)
(*   - the line reader of the bridge (Stream.readline), the stdin branch   *)
(*     of the bridge loop and close().                                     *)
(* Each part has a specification of its own (SpecBridge, SpecAcquire,      *)
(* SpecAcquireSeq, SpecRun, SpecReadline, SpecStdin, SpecUndo for the      *)
(* message history of the terminal interface); the variables of            *)
(* the other parts stay at their initial values. SpecRunFair and           *)
(* SpecStdinFair add weak fairness of the threads that keep running.       *)
(***************************************************************************)
EXTENDS Integers, Sequences, FiniteSets, TLC

VARIABLES
    \* ---- stream bridge (DockerStreamWrapper) ----
    wire,          \* the frames the remote end sends on the exec socket
    sock,          \* the bytes of the wire that recv has not returned yet
    stdout_w,      \* bytes written so far to the stdout pipe (_stdout_w)
    stderr_w,      \* bytes written so far to the stderr pipe (_stderr_w)
    listen_alive,  \* the _listen thread has not died of an exception
    aligned        \* every recv so far ended where a frame ends

VARIABLES
    \* ---- process driver (SubprocessCodeInterpreter) ----
    contain,       \* self.contain: the process runs in a container
    process,       \* self.process: 0 for None, else the id of the process held
    nstarted,      \* number of processes start_process has created so far
    live,          \* ids of the processes created and never terminated
    output_queue,  \* self.output_queue
    done,          \* self.done
    pc,            \* where the run call in progress stands ("idle": none)
    retry_count,   \* run's local retry_count
    code,          \* the submission of the call in progress
    calls,         \* number of run calls made so far
    writes,        \* stdin writes attempted by the call in progress
    call_starts,   \* start_process calls made by the call in progress
    events,        \* what the call in progress has yielded so far
    result,        \* how the last finished call ended
    drains,        \* iterations done of the `for _ in range(3)` loop
    stdout_lines,  \* lines the process has printed on stdout, not yet read
    stderr_lines,  \* the same for stderr
    reader_pc,     \* per reader thread: "read", or "set" before done.set()
    reader_alive,  \* per stream: the reader thread of the process held runs
    written,       \* ids of the processes whose stdin took a submission
    enq_hist,      \* history: the events put on the queue and not yielded
                   \* before the call in progress began, with their origin
    nyielded,      \* history: how many of them run has taken off the queue
    nread,         \* history: per stream, the number of the last line taken
    extra_yields   \* history: events yielded by the `for _ in range(3)` loop

VARIABLES
    \* ---- session containers (DockerProcWrapper, the container engine) ----
    engine,        \* the engine's containers: label session_id and state
    wpc,           \* per wrapper: where its init_container stands
    wid,           \* per wrapper: self.id, the session identifier
    wcontainer,    \* per wrapper: self.container (0 for None, else the Id)
    welapsed,      \* per wrapper: seconds slept in wait_for_container_start
    wcreates,      \* per wrapper: create_container calls issued
    wstarts,       \* per wrapper: start calls issued
    wprior,        \* per wrapper: the reference an earlier acquire of the
                   \* session had left when this one began (0: none)
    wrunning,      \* per wrapper: its container ran when init_container returned
    wswallowed,    \* per wrapper: init_container caught and printed an APIError
    wctor,         \* per wrapper: where the rest of __init__ stands
    wexec,         \* per wrapper: exec_create calls issued
    wbridge,       \* per wrapper: a DockerStreamWrapper was built
    workspace,     \* the session identifiers whose workspace directory exists
    registered,    \* the wrappers registered with atexit, in order
    exit_pc,       \* interpreter exit: "none", the line the handler in
                   \* progress stands at, or "finished"
    exit_idx       \* the place in `registered` of the handler in progress

VARIABLES
    \* ---- a line reader of the bridge (DockerStreamWrapper.Stream) ----
    rl_pipe,       \* bytes written to the pipe and not read yet
    rl_buffer,     \* self._buffer, the text read and not returned yet
    rl_pc,         \* "idle", "loop" inside a readline call, or "raised"
    rl_nwrites,    \* number of writes made to the pipe
    rl_written,    \* history: all the bytes written to the pipe
    rl_lines,      \* history: the lines readline has returned
    rl_last,       \* history: how the last readline call ended
    rl_wait,       \* seconds the select in progress has waited
    rl_total       \* history: seconds the call has waited in its selects

VARIABLES
    \* ---- the stdin branch of _listen, and close ----
    si_pipe,       \* bytes written to the stdin pipe and not read yet
    si_buffer,     \* self._stdin_buffer
    si_nwrites,    \* number of writes made to the stdin channel
    si_input,      \* history: the text written to the stdin channel
    si_unescaped,  \* history: the text of the chunks read, as unescaped
    si_sent,       \* history: the byte strings passed to sendall, in order
    stop_event,    \* self._stop_event is set
    listen_state,  \* the _listen thread: "running", "blocked" in an
                   \* os.write, "exited" or "died"
    close_pc,      \* where close() stands ("none": not called)
    fds_open,      \* the pipe file descriptors of the bridge that are open
    out_fill       \* chunks written to the stdout pipe and not read yet

VARIABLES
    \* ---- the message history of the terminal interface (handle_undo) ----
    messages,      \* self.messages
    nmessages,     \* number of messages appended so far
    undo_prev,     \* history: self.messages when handle_undo was last called
    undone         \* history: the last step was a handle_undo call

bridgeVars == <<wire, sock, stdout_w, stderr_w, listen_alive, aligned>>

\* What only the readers, the queue and the stdin write change.
histVars == <<enq_hist, nyielded, nread, extra_yields>>

runVars == <<contain, process, nstarted, live, output_queue, done, pc,
             retry_count, code, calls, writes, call_starts, events, result,
             drains, stdout_lines, stderr_lines, reader_pc, reader_alive,
             written, histVars>>

\* What init_container and the engine leave alone: the rest of __init__.
ctorVars == <<wctor, wexec, wbridge>>

\* What only __init__'s first lines and the atexit handlers change.
exitVars == <<workspace, registered, exit_pc, exit_idx>>

acquireVars == <<engine, wpc, wid, wcontainer, welapsed, wcreates, wstarts,
                 wprior, wrunning, wswallowed, ctorVars, exitVars>>

readlineVars == <<rl_pipe, rl_buffer, rl_pc, rl_nwrites, rl_written, rl_lines,
                  rl_last, rl_wait, rl_total>>

stdinVars == <<si_pipe, si_buffer, si_nwrites, si_input, si_unescaped, si_sent,
               stop_event, listen_state, close_pc, fds_open, out_fill>>

undoVars == <<messages, nmessages, undo_prev, undone>>

vars == <<bridgeVars, runVars, acquireVars, readlineVars, stdinVars, undoVars>>

\* What the actions of one part leave alone: the variables of the others.
nonBridgeVars == <<runVars, acquireVars, readlineVars, stdinVars, undoVars>>

nonRunVars == <<bridgeVars, acquireVars, readlineVars, stdinVars, undoVars>>

nonAcquireVars == <<bridgeVars, runVars, readlineVars, stdinVars, undoVars>>

nonReadlineVars == <<bridgeVars, runVars, acquireVars, stdinVars, undoVars>>

nonStdinVars == <<bridgeVars, runVars, acquireVars, readlineVars, undoVars>>

nonUndoVars == <<bridgeVars, runVars, acquireVars, readlineVars, stdinVars>>

\* =========================================================================
\* Bounds and inputs
\* =========================================================================

\* Number of frames the remote end sends in one behaviour.
MaxFrames == 2

\* Number of run calls made on one driver in one behaviour.
MaxCalls == 2

\* Number of DockerProcWrapper objects constructed in one behaviour.
MaxWrappers == 2

\* Number of writes the bridge makes to the stdout pipe in one behaviour.
MaxPipeWrites == 2

\* Number of writes made to the stdin channel in one behaviour.
MaxStdinWrites == 3

\* Room of an operating-system pipe, in chunks written by _listen.
PipeCapacity == 2

\* Number of messages appended to the history in one behaviour.
MaxMessages == 4

\* Stream-type tags put on the wire: 1 = stdout, 2 = stderr, 3 = any other.
Tags == {1, 2, 3}

\* Payloads put on the wire (UTF-8 bytes): empty, "a", "b\n", and the
\* two-byte character U+00E9.
Payloads == {<<>>, <<97>>, <<98, 10>>, <<195, 169>>}

\* =========================================================================
\* Sequences of bytes and of code points
\* =========================================================================

Min(a, b) == IF a < b THEN a ELSE b

\* Python's data[a:b] for 0 <= a, 0 <= b: clipped to the length of data.
Slice(data, a, b) ==
    LET lo == Min(a, Len(data))
        hi == Min(b, Len(data))
    IN  IF hi <= lo THEN <<>> ELSE SubSeq(data, lo + 1, hi)

\* The bytes of UTF-8 by their role: a one-byte character, the first byte of
\* a two-byte character, a continuation byte. (No byte has two roles.)
IsAscii(b) == b < 128

IsLead(b) == b >= 194 /\ b <= 223

IsCont(b) == b >= 128 /\ b <= 191

\* bytes.decode("utf-8"), for one- and two-byte characters: the code points,
\* or a UnicodeDecodeError when some byte starts no complete character (a
\* first byte without its continuation, a continuation without its first
\* byte, any other byte).
Utf8Decode(bytes) ==
    LET n == Len(bytes)
        good(i) == \/ IsAscii(bytes[i])
                   \/ IsLead(bytes[i]) /\ i < n /\ IsCont(bytes[i + 1])
                   \/ IsCont(bytes[i]) /\ i > 1 /\ IsLead(bytes[i - 1])
        starts == SelectSeq([i \in 1..n |-> i], LAMBDA i : ~IsCont(bytes[i]))
        cp(i) == IF IsAscii(bytes[i]) THEN bytes[i]
                 ELSE (bytes[i] - 192) * 64 + (bytes[i + 1] - 128)
    IN  IF \A i \in 1..n : good(i)
        THEN [raised |-> FALSE, text |-> [k \in 1..Len(starts) |-> cp(starts[k])]]
        ELSE [raised |-> TRUE, text |-> <<>>]

\* str.encode(), for code points below 2048: one or two bytes for each.
Utf8Encode(text) ==
    LET slots == [k \in 1..2 * Len(text) |->
                    LET c == text[(k + 1) \div 2]
                    IN  IF k % 2 = 1
                        THEN (IF c < 128 THEN c ELSE 192 + (c \div 64))
                        ELSE (IF c < 128 THEN -1 ELSE 128 + (c % 64))]
    IN  SelectSeq(slots, LAMBDA b : b >= 0)

\* =========================================================================
\* The wire format, as the container engine writes it
\* =========================================================================

\* One frame: 1-byte type, 3 padding bytes, 4-byte big-endian length, payload.
FrameBytes(f) ==
    LET n == Len(f.payload)
    IN  <<f.tag, 0, 0, 0,
          (n \div 16777216) % 256, (n \div 65536) % 256,
          (n \div 256) % 256, n % 256>> \o f.payload

Frames == [tag : Tags, payload : Payloads]

RECURSIVE WireBytes(_)
WireBytes(fs) == IF fs = <<>> THEN <<>> ELSE FrameBytes(Head(fs)) \o WireBytes(Tail(fs))

\* The offsets of the wire at which a frame starts or the wire ends.
FrameBoundaries(fs) == {Len(WireBytes(SubSeq(fs, 1, i))) : i \in 0..Len(fs)}

\* =========================================================================
\* DockerStreamWrapper.demux_docker_stream
\* =========================================================================

\* A length of 2^30 or more stands for itself capped at 2^30: a chunk holds at
\* most RecvSize bytes, so every such length slices and compares alike.
LengthCap == 64 * 16777216

\* bufsize of self._sock.recv(2048)
RecvSize == 2048

BigEndian(b3, b2, b1, b0) ==
    IF b3 >= 64 THEN LengthCap
    ELSE b3 * 16777216 + b2 * 65536 + b1 * 256 + b0

\* struct.unpack("<BxxxL", header): the length read in the wrong byte order.
UnpackLE(header) ==
    [stream_type |-> header[1],
     length |-> BigEndian(header[8], header[7], header[6], header[5])]

\* struct.unpack(">BxxxL", header)
Unpack(header) ==
    [stream_type |-> header[1],
     length |-> BigEndian(header[5], header[6], header[7], header[8])]

\* The while loop of demux_docker_stream from `offset` on, with the text
\* accumulated so far; a UnicodeDecodeError ends it by an exception.
RECURSIVE demux_loop(_, _, _, _)
demux_loop(data, offset, stdout, stderr) ==
    IF offset + 8 <= Len(data) THEN
        LET h == Unpack(Slice(data, offset, offset + 8))
            chunk == Utf8Decode(Slice(data, offset + 8, offset + 8 + h.length))
            next == offset + 8 + h.length
        IN  IF chunk.raised
            THEN [raised |-> TRUE, stdout |-> <<>>, stderr |-> <<>>]
            ELSE IF h.stream_type = 1
                 THEN demux_loop(data, next, stdout \o chunk.text, stderr)
            ELSE IF h.stream_type = 2
                 THEN demux_loop(data, next, stdout, stderr \o chunk.text)
            ELSE demux_loop(data, next, stdout, stderr)
    ELSE [raised |-> FALSE, stdout |-> stdout, stderr |-> stderr]

demux_docker_stream(data) == demux_loop(data, 0, <<>>, <<>>)

\* =========================================================================
\* DockerStreamWrapper._listen, the socket branch
\* =========================================================================

InitBridge ==
    /\ wire \in UNION {[1..n -> Frames] : n \in 0..MaxFrames}
    /\ sock = WireBytes(wire)
    /\ stdout_w = <<>>
    /\ stderr_w = <<>>
    /\ listen_alive = TRUE
    /\ aligned = TRUE

\* One iteration of _listen in which the socket is ready: recv returns the
\* next k bytes of the wire, they are decoded on their own and the text is
\* written to the two pipes. An exception of the decoder ends the thread.
ListenRecv(k) ==
    /\ listen_alive
    /\ k >= 1 /\ k <= RecvSize /\ k <= Len(sock)
    /\ LET raw_data == SubSeq(sock, 1, k)
           out == demux_docker_stream(raw_data)
       IN  /\ sock' = SubSeq(sock, k + 1, Len(sock))
           /\ aligned' = (aligned /\ Len(WireBytes(wire)) - Len(sock) + k
                                         \in FrameBoundaries(wire))
           /\ IF out.raised
              THEN /\ listen_alive' = FALSE
                   /\ UNCHANGED <<stdout_w, stderr_w>>
              ELSE /\ listen_alive' = TRUE
                   /\ stdout_w' = stdout_w \o Utf8Encode(out.stdout)
                   /\ stderr_w' = stderr_w \o Utf8Encode(out.stderr)
    /\ UNCHANGED wire
    /\ UNCHANGED nonBridgeVars

\* The longest wire of the model, in bytes.
MaxWireLen == (8 + 2) * MaxFrames

NextBridge == \E k \in 1..MaxWireLen : ListenRecv(k)

\* The bridge before any frame is on the wire.
BridgeIdle ==
    /\ wire = <<>> /\ sock = <<>> /\ stdout_w = <<>> /\ stderr_w = <<>>
    /\ listen_alive = TRUE /\ aligned = TRUE

\* ---- what the frames of the wire say, for the properties below ----

\* Number of wire bytes recv has returned so far.
Received == Len(WireBytes(wire)) - Len(sock)

\* Offset of the wire at which frame i ends.
FrameEnd(i) == Len(WireBytes(SubSeq(wire, 1, i)))

\* Number of frames that lie entirely within the first p bytes of the wire.
CompleteFrames(p) == Cardinality({i \in 1..Len(wire) : FrameEnd(i) <= p})

\* The payload bytes of the frames tagged `tag` among frames from..to.
RECURSIVE TaggedPayload(_, _, _)
TaggedPayload(from, to, tag) ==
    IF from > to THEN <<>>
    ELSE (IF wire[from].tag = tag THEN wire[from].payload ELSE <<>>)
             \o TaggedPayload(from + 1, to, tag)

\* The first p bytes of the wire are complete frames followed by a frame
\* whose header is there and whose payload is not all there.
IncompleteTail(p) ==
    /\ CompleteFrames(p) < Len(wire)
    /\ p >= FrameEnd(CompleteFrames(p)) + 8
    /\ p < FrameEnd(CompleteFrames(p) + 1)

\* C5: chunk-boundary invariance. Once the whole wire has been received,
\* in whatever chunks, the bridge is alive and each pipe holds the text
\* that decoding the unsplit wire in one call gives.
C5_ChunkBoundaryInvariance ==
    sock = <<>> =>
        /\ listen_alive
        /\ stdout_w = Utf8Encode(demux_docker_stream(WireBytes(wire)).stdout)
        /\ stderr_w = Utf8Encode(demux_docker_stream(WireBytes(wire)).stderr)

\* C6: no partial decode. A recv that starts at a frame start and ends
\* inside the payload of a frame is decoded without failure to exactly
\* the payloads of the complete frames before that frame.
C6_NoPartialDecode ==
    [][(/\ Received \in FrameBoundaries(wire)
        /\ sock' # sock
        /\ IncompleteTail(Received'))
       => (/\ listen_alive'
           /\ stdout_w' = stdout_w \o TaggedPayload(CompleteFrames(Received) + 1,
                                                    CompleteFrames(Received'), 1)
           /\ stderr_w' = stderr_w \o TaggedPayload(CompleteFrames(Received) + 1,
                                                    CompleteFrames(Received'), 2))]_bridgeVars

\* C7: routing of complete frames. As long as every recv returned whole
\* frames, the stdout pipe holds the payloads of the received frames tagged
\* 1 in frame order, the stderr pipe those tagged 2, and no other payload
\* is in either; decoding the whole wire in one call gives the same texts.
C7_CompleteFramesRouted ==
    /\ aligned =>
          /\ listen_alive
          /\ stdout_w = TaggedPayload(1, CompleteFrames(Received), 1)
          /\ stderr_w = TaggedPayload(1, CompleteFrames(Received), 2)
    /\ LET out == demux_docker_stream(WireBytes(wire))
       IN  /\ ~out.raised
           /\ Utf8Encode(out.stdout) = TaggedPayload(1, Len(wire), 1)
           /\ Utf8Encode(out.stderr) = TaggedPayload(1, Len(wire), 2)

\* Two frames received in two aligned reads: a dropped frame of another tag
\* with a payload, then a stdout frame whose payload is in the stdout pipe.
C7_Witness ==
    /\ aligned /\ sock = <<>> /\ Len(wire) = 2
    /\ wire[1].tag = 3 /\ wire[1].payload = <<98, 10>>
    /\ wire[2].tag = 1 /\ wire[2].payload = <<195, 169>>
    /\ stdout_w = <<195, 169>> /\ stderr_w = <<>>

\* =========================================================================
\* SubprocessCodeInterpreter: hooks, events and the process it drives
\* =========================================================================

\* Python's None, as a value of a hook or of an active_line event.
NoneValue == "None"

\* max_retries of run
max_retries == 3

\* traceback.format_exc() of the exception being handled
TracebackText == "Traceback (most recent call last): SubprocessError"

\* f"Retrying... ({retry_count}/{max_retries})"
RetryingText(rc) ==
    CASE rc = 0 -> "Retrying... (0/3)"
      [] rc = 1 -> "Retrying... (1/3)"
      [] rc = 2 -> "Retrying... (2/3)"
      [] rc = 3 -> "Retrying... (3/3)"
      [] OTHER -> "Retrying... (n/3)"

RestartingText == "Restarting process."

MaxRetriesText == "Maximum retries reached. Could not execute code."

OutputEvent(text) == [key |-> "output", val |-> text]

ActiveLineEvent(v) == [key |-> "active_line", val |-> v]

\* The hooks of a language adapter: the one of the end-to-end scenario of the
\* specification, with an active-line marker and an echoed line to discard.
line_postprocessor(line) == IF line = "##echo##" THEN NoneValue ELSE line

detect_active_line(line) == IF line = "##active_line1##" THEN "1" ELSE NoneValue

detect_end_of_execution(line) == line = "__DONE__"

\* A test that finds the notice in no line.
HasKeyboardInterruptNever(line) == FALSE

\* "KeyboardInterrupt" in line
HasKeyboardInterrupt(line) == line \in {"KeyboardInterrupt"}

\* The submissions of the model, and what the process prints for each.
Codes == {"echo hi", "x=1", "sleep", "echo"}

ScriptOf(c) ==
    CASE c = "echo hi" -> [out |-> <<"hi", "__DONE__">>, err |-> <<>>]
      [] c = "x=1" -> [out |-> <<"##active_line1##", "##echo##", "__DONE__">>,
                       err |-> <<"warn">>]
      [] c = "echo" -> [out |-> <<"", "__DONE__">>, err |-> <<>>]
      [] OTHER -> [out |-> <<"KeyboardInterrupt">>, err |-> <<"KeyboardInterrupt">>]

\* How start_process can end: it returns, or the constructor it calls raises
\* (Popen: OSError or SubprocessError; DockerProcWrapper: the TimeoutError of
\* wait_for_container_start, a docker APIError of exec_create or exec_start).
StartOutcomes ==
    IF contain THEN {"ok", "TimeoutError", "APIError"}
    ELSE {"ok", "SubprocessError", "OSError"}

\* How stdin.write/flush can end: it returns, or raises the error of the pipe
\* (BrokenPipeError, an OSError) or a SubprocessError.
WriteOutcomes == {"ok", "SubprocessError", "OSError"}

\* The exceptions the two `except subprocess.SubprocessError` clauses catch.
Caught(e) == e = "SubprocessError"

\* =========================================================================
\* SubprocessCodeInterpreter.__init__, start_process, run
\* =========================================================================

InitRun ==
    /\ contain \in BOOLEAN
    /\ process = 0
    /\ nstarted = 0
    /\ live = {}
    /\ output_queue = <<>>
    /\ done = FALSE
    /\ pc = "idle"
    /\ retry_count = 0
    /\ code = ""
    /\ calls = 0
    /\ writes = 0
    /\ call_starts = 0
    /\ events = <<>>
    /\ result = "none"
    /\ drains = 0
    /\ stdout_lines = <<>>
    /\ stderr_lines = <<>>
    /\ reader_pc = [s \in {"stdout", "stderr"} |-> "read"]
    /\ reader_alive = [s \in {"stdout", "stderr"} |-> FALSE]
    /\ written = {}
    /\ enq_hist = <<>>
    /\ nyielded = 0
    /\ nread = [s \in {"stdout", "stderr"} |-> 0]
    /\ extra_yields = 0

\* The driver as constructed, for the specifications of the other parts.
RunIdle ==
    /\ contain = TRUE
    /\ process = 0 /\ nstarted = 0 /\ live = {}
    /\ output_queue = <<>> /\ done = FALSE /\ pc = "idle"
    /\ retry_count = 0 /\ code = "" /\ calls = 0 /\ writes = 0
    /\ call_starts = 0 /\ events = <<>> /\ result = "none" /\ drains = 0
    /\ stdout_lines = <<>> /\ stderr_lines = <<>>
    /\ reader_pc = [s \in {"stdout", "stderr"} |-> "read"]
    /\ reader_alive = [s \in {"stdout", "stderr"} |-> FALSE]
    /\ written = {} /\ enq_hist = <<>> /\ nyielded = 0
    /\ nread = [s \in {"stdout", "stderr"} |-> 0]
    /\ extra_yields = 0

Streams == {"stdout", "stderr"}

\* start_process when the constructor returns: a new process object replaces
\* the one held (which nothing terminates) and two reader threads start. What
\* a superseded stream whose reader has ended still holds is never read.
start_process ==
    /\ nstarted' = nstarted + 1
    /\ process' = nstarted + 1
    /\ live' = live \cup {nstarted + 1}
    /\ call_starts' = call_starts + 1
    /\ reader_alive' = [s \in Streams |-> TRUE]
    /\ stdout_lines' = IF reader_alive["stdout"] THEN stdout_lines ELSE <<>>
    /\ stderr_lines' = IF reader_alive["stderr"] THEN stderr_lines ELSE <<>>

\* The call ends: by a return (how = "ok", "setup_failed", "exhausted") or
\* by an exception that leaves the generator (how = "raised").
EndCall(how) ==
    /\ pc' = "idle"
    /\ result' = how

\* The history starts afresh with each call: what earlier calls yielded is
\* forgotten, the lines are numbered from the oldest event still queued, and
\* the events still queued are marked as left by an earlier call (as long
\* as they are on the queue).
CountStream(h, s) == Len(SelectSeq(h, LAMBDA e : e.stream = s))

Renumbered(h) ==
    [i \in 1..Len(h) |->
        [h[i] EXCEPT !.n = CountStream(SubSeq(h, 1, i), h[i].stream),
                     !.left = TRUE]]

\* run(code) is called: the locals are set.
RunCall(c) ==
    /\ pc = "idle"
    /\ calls < MaxCalls
    /\ calls' = calls + 1
    /\ code' = c
    /\ retry_count' = 0
    /\ writes' = 0
    /\ call_starts' = 0
    /\ events' = <<>>
    /\ pc' = "setup"
    /\ enq_hist' = Renumbered(SubSeq(enq_hist, nyielded + 1, Len(enq_hist)))
    /\ nyielded' = 0
    /\ extra_yields' = 0
    /\ nread' = [s \in Streams |->
                     CountStream(SubSeq(enq_hist, nyielded + 1, Len(enq_hist)), s)]
    /\ UNCHANGED <<contain, process, nstarted, live, output_queue, done, result,
                   drains, stdout_lines, stderr_lines, reader_pc, reader_alive,
                   written>>
    /\ UNCHANGED nonRunVars

\* A guard that never sees the process held.
ProcessHeldNever == FALSE

\* The negation of `not self.process`
ProcessHeld == process # 0

\* Setup with a process already held: nothing is started.
SetupHeld ==
    /\ pc = "setup"
    /\ ProcessHeld
    /\ pc' = "loop"
    /\ UNCHANGED <<contain, process, nstarted, live, output_queue, done,
                   retry_count, code, calls, writes, call_starts, events, result,
                   drains, stdout_lines, stderr_lines, reader_pc, reader_alive,
                   written, histVars>>
    /\ UNCHANGED nonRunVars

\* What a start that raises leaves alone.
StartLeaves == <<process, nstarted, live, call_starts, reader_alive,
                 stdout_lines, stderr_lines>>

\* Setup without a process: the lazy start, which returns or raises.
SetupStart(o) ==
    /\ pc = "setup"
    /\ ~ProcessHeld
    /\ o \in StartOutcomes
    /\ IF o = "ok" THEN
           /\ start_process
           /\ pc' = "loop"
           /\ UNCHANGED <<events, result>>
       ELSE IF Caught(o) THEN
           /\ events' = Append(events, OutputEvent(TracebackText))
           /\ EndCall("setup_failed")
           /\ UNCHANGED StartLeaves
       ELSE
           /\ EndCall("raised")
           /\ UNCHANGED <<StartLeaves, events>>
    /\ UNCHANGED <<contain, output_queue, done, retry_count, code, calls, writes,
                   drains, reader_pc, written, histVars>>
    /\ UNCHANGED nonRunVars

\* The events of the except clause of the write, before the restart.
FailureEvents(rc) ==
    <<OutputEvent(TracebackText)>> \o
    (IF rc # 0
     THEN <<OutputEvent(TracebackText), OutputEvent(RetryingText(rc)),
            OutputEvent(RestartingText)>>
     ELSE <<>>)

\* One pass of `while retry_count <= max_retries`: done is cleared and the
\* submission is written and flushed; the write returns (the process will
\* print its output), raises what the clause catches, or raises past it.
WriteAttempt(o) ==
    /\ pc = "loop"
    /\ o \in WriteOutcomes
    /\ IF retry_count <= max_retries THEN
           /\ done' = FALSE
           /\ writes' = writes + 1
           /\ IF o = "ok" THEN
                  /\ pc' = "drain_top"
                  /\ written' = written \cup {process}
                  /\ stdout_lines' = stdout_lines \o ScriptOf(code).out
                  /\ stderr_lines' = stderr_lines \o ScriptOf(code).err
                  /\ UNCHANGED <<events, result>>
              ELSE IF Caught(o) THEN
                  /\ events' = events \o FailureEvents(retry_count)
                  /\ pc' = "restart"
                  /\ UNCHANGED <<result, stdout_lines, stderr_lines, written>>
              ELSE
                  /\ EndCall("raised")
                  /\ UNCHANGED <<events, stdout_lines, stderr_lines, written>>
       ELSE
           /\ pc' = "drain_top"
           /\ UNCHANGED <<done, writes, events, result, stdout_lines,
                          stderr_lines, written>>
    /\ UNCHANGED <<contain, process, nstarted, live, output_queue, retry_count,
                   code, calls, call_starts, drains, reader_pc, reader_alive,
                   histVars>>
    /\ UNCHANGED nonRunVars

\* retry_count += 2: an attempt counted twice.
NextRetryCountSkip(rc) == rc + 2

\* retry_count += 1
NextRetryCount(rc) == rc + 1

\* The rest of the except clause: the process is started again, outside any
\* try, then the counter is incremented and compared with the bound.
Restart(o) ==
    /\ pc = "restart"
    /\ o \in StartOutcomes
    /\ IF o = "ok" THEN
           /\ start_process
           /\ retry_count' = NextRetryCount(retry_count)
           /\ IF retry_count' > max_retries
              THEN /\ events' = Append(events, OutputEvent(MaxRetriesText))
                   /\ EndCall("exhausted")
              ELSE /\ pc' = "loop"
                   /\ UNCHANGED <<events, result>>
       ELSE
           /\ EndCall("raised")
           /\ UNCHANGED <<StartLeaves, retry_count, events>>
    /\ UNCHANGED <<contain, output_queue, done, code, calls, writes, drains,
                   reader_pc, written, histVars>>
    /\ UNCHANGED nonRunVars

\* ---- the drain loop of run ----

\* A get that takes the newest event.
QueueGetLast(q) == q[Len(q)]

\* queue.Queue.get(): the oldest event ...
QueueGet(q) == Head(q)

\* A get that leaves the event on the queue.
QueueRestKeep(q) == q

\* ... which leaves the queue.
QueueRest(q) == Tail(q)

\* `yield self.output_queue.get()` on a queue that holds an event.
YieldFromQueue ==
    /\ events' = Append(events, QueueGet(output_queue))
    /\ output_queue' = QueueRest(output_queue)
    /\ nyielded' = nyielded + 1
    /\ enq_hist' = [enq_hist EXCEPT ![nyielded + 1].left = FALSE]

\* `if not self.output_queue.empty(): yield self.output_queue.get()`, else a
\* sleep of 0.1 s.
DrainTop ==
    /\ pc = "drain_top"
    /\ IF output_queue # <<>>
       THEN YieldFromQueue
       ELSE UNCHANGED <<events, output_queue, nyielded, enq_hist>>
    /\ pc' = "drain_get"
    /\ UNCHANGED <<contain, process, nstarted, live, done, retry_count, code,
                   calls, writes, call_starts, result, drains, stdout_lines,
                   stderr_lines, reader_pc, reader_alive, written,
                   nread, extra_yields>>
    /\ UNCHANGED nonRunVars

\* `yield self.output_queue.get(timeout=0.3)` when an event is there in time.
DrainGet ==
    /\ pc = "drain_get"
    /\ output_queue # <<>>
    /\ YieldFromQueue
    /\ pc' = "drain_top"
    /\ UNCHANGED <<contain, process, nstarted, live, done, retry_count, code,
                   calls, writes, call_starts, result, drains, stdout_lines,
                   stderr_lines, reader_pc, reader_alive, written,
                   nread, extra_yields>>
    /\ UNCHANGED nonRunVars

\* A test of the flag that always finds it set.
DoneIsSetAlways == TRUE

\* self.done.is_set()
DoneIsSet == done

\* queue.Empty after 0.3 s: with done set the three extra drains follow,
\* without it the loop goes on.
DrainTimeout ==
    /\ pc = "drain_get"
    /\ output_queue = <<>>
    /\ IF DoneIsSet THEN pc' = "extra" /\ drains' = 0 /\ extra_yields' = 0
                    ELSE pc' = "drain_top" /\ UNCHANGED <<drains, extra_yields>>
    /\ UNCHANGED <<contain, process, nstarted, live, output_queue, done,
                   retry_count, code, calls, writes, call_starts, events, result,
                   stdout_lines, stderr_lines, reader_pc, reader_alive, written,
                   enq_hist, nyielded, nread>>
    /\ UNCHANGED nonRunVars

\* A loop of one iteration more.
ExtraDrainsMore == 3 + 1

\* range(3)
ExtraDrains == 3

\* One iteration of `for _ in range(3)`: an event is yielded if one is there;
\* then 0.2 s of sleep.
ExtraDrain ==
    /\ pc = "extra"
    /\ drains < ExtraDrains
    /\ IF output_queue # <<>>
       THEN YieldFromQueue /\ extra_yields' = extra_yields + 1
       ELSE UNCHANGED <<events, output_queue, nyielded, extra_yields, enq_hist>>
    /\ drains' = drains + 1
    /\ UNCHANGED <<contain, process, nstarted, live, done, pc, retry_count, code,
                   calls, writes, call_starts, result, stdout_lines,
                   stderr_lines, reader_pc, reader_alive, written, nread>>
    /\ UNCHANGED nonRunVars

\* `break`: the sequence ends.
DrainBreak ==
    /\ pc = "extra"
    /\ drains = ExtraDrains
    /\ EndCall("ok")
    /\ UNCHANGED <<contain, process, nstarted, live, output_queue, done,
                   retry_count, code, calls, writes, call_starts, events, drains,
                   stdout_lines, stderr_lines, reader_pc, reader_alive, written,
                   histVars>>
    /\ UNCHANGED nonRunVars

\* ---- handle_stream_output, one thread per stream ----

\* The lines of this model are texts without their terminator.
PendingLines(s) == IF s = "stdout" THEN stdout_lines ELSE stderr_lines

\* Whether the readline result for a printed line is the sentinel "" of
\* iter(stream.readline, ""): Stream.readline of the container bridge strips
\* the newline, so an empty line reads as ""; a Popen stream gives "\n".
ReadlineSentinel(line) == contain /\ line = ""

\* self.output_queue.put(ev), from the reader of stream s.
Put(ev, s) ==
    /\ output_queue' = Append(output_queue, ev)
    /\ enq_hist' = Append(enq_hist, [ev |-> ev, stream |-> s, n |-> nread[s] + 1,
                                     left |-> FALSE])

\* The reader of stream s takes the next line: the loop ends on the
\* sentinel, else the line is post-processed and classified.
ReaderLine(s) ==
    /\ reader_alive[s]
    /\ reader_pc[s] = "read"
    /\ PendingLines(s) # <<>>
    /\ nread' = [nread EXCEPT ![s] = @ + 1]
    /\ IF ReadlineSentinel(Head(PendingLines(s))) THEN
           /\ reader_alive' = [reader_alive EXCEPT ![s] = FALSE]
           /\ UNCHANGED <<output_queue, enq_hist, reader_pc>>
       ELSE
           /\ UNCHANGED reader_alive
           /\ LET line == line_postprocessor(Head(PendingLines(s)))
              IN  IF line = NoneValue THEN
                      UNCHANGED <<output_queue, enq_hist, reader_pc>>
                  ELSE IF detect_active_line(line) # NoneValue THEN
                      /\ Put(ActiveLineEvent(detect_active_line(line)), s)
                      /\ UNCHANGED reader_pc
                  ELSE IF detect_end_of_execution(line) THEN
                      /\ Put(ActiveLineEvent(NoneValue), s)
                      /\ reader_pc' = [reader_pc EXCEPT ![s] = "set"]
                  ELSE IF s = "stderr" /\ HasKeyboardInterrupt(line) THEN
                      /\ Put(OutputEvent("KeyboardInterrupt"), s)
                      /\ reader_pc' = [reader_pc EXCEPT ![s] = "set"]
                  ELSE
                      /\ Put(OutputEvent(line), s)
                      /\ UNCHANGED reader_pc
    /\ IF s = "stdout"
       THEN stdout_lines' = Tail(stdout_lines) /\ UNCHANGED stderr_lines
       ELSE stderr_lines' = Tail(stderr_lines) /\ UNCHANGED stdout_lines
    /\ UNCHANGED <<contain, process, nstarted, live, done, pc, retry_count, code,
                   calls, writes, call_starts, events, result, drains, written,
                   nyielded, extra_yields>>
    /\ UNCHANGED nonRunVars

\* Stream.readline of the container bridge returns "" when no complete line
\* has come within its timeout of 3 s: the sentinel, and the loop ends.
ReaderTimeout(s) ==
    /\ contain
    /\ reader_alive[s]
    /\ reader_pc[s] = "read"
    /\ PendingLines(s) = <<>>
    /\ reader_alive' = [reader_alive EXCEPT ![s] = FALSE]
    /\ UNCHANGED <<contain, process, nstarted, live, output_queue, done, pc,
                   retry_count, code, calls, writes, call_starts, events, result,
                   drains, stdout_lines, stderr_lines, reader_pc, written,
                   histVars>>
    /\ UNCHANGED nonRunVars

\* After the sleep of 0.1 s the reader marks completion.
ReaderSetDone(s) ==
    /\ reader_pc[s] = "set"
    /\ done' = TRUE
    /\ reader_pc' = [reader_pc EXCEPT ![s] = "read"]
    /\ UNCHANGED <<contain, process, nstarted, live, output_queue, pc,
                   retry_count, code, calls, writes, call_starts, events, result,
                   drains, stdout_lines, stderr_lines, reader_alive, written,
                   histVars>>
    /\ UNCHANGED nonRunVars

NextRun ==
    \/ \E c \in Codes : RunCall(c)
    \/ SetupHeld
    \/ \E o \in StartOutcomes : SetupStart(o)
    \/ \E o \in WriteOutcomes : WriteAttempt(o)
    \/ \E o \in StartOutcomes : Restart(o)
    \/ DrainTop
    \/ DrainGet
    \/ DrainTimeout
    \/ ExtraDrain
    \/ DrainBreak
    \/ \E s \in Streams : ReaderLine(s)
    \/ \E s \in Streams : ReaderTimeout(s)
    \/ \E s \in Streams : ReaderSetDone(s)

\* The submissions given under fairness.
FairCodes == {"x=1", "echo"}

NextRunFair ==
    \/ \E c \in FairCodes : RunCall(c)
    \/ SetupHeld
    \/ \E o \in StartOutcomes : SetupStart(o)
    \/ \E o \in WriteOutcomes : WriteAttempt(o)
    \/ \E o \in StartOutcomes : Restart(o)
    \/ DrainTop
    \/ DrainGet
    \/ DrainTimeout
    \/ ExtraDrain
    \/ DrainBreak
    \/ \E s \in Streams : ReaderLine(s)
    \/ \E s \in Streams : ReaderTimeout(s)
    \/ \E s \in Streams : ReaderSetDone(s)

\* ---- properties of run ----

\* The events run itself produces around a failed write.
IsDiagnostic(e) ==
    /\ e.key = "output"
    /\ e.val \in {TracebackText, RestartingText} \cup {RetryingText(n) : n \in 0..4}

DrainPcs == {"drain_top", "drain_get", "extra"}

\* C1: three failed writes followed by a successful one yield exactly three
\* diagnostic events, one per failed attempt, before any output event; a
\* fourth failed write ends the sequence with the 'Maximum retries reached'
\* event as its last event.
C1_ThreeDiagnosticsThenOutput ==
    /\ (pc \in DrainPcs /\ retry_count = 3) =>
          /\ Len(SelectSeq(events, IsDiagnostic)) = 3
          /\ \A i \in 1..Len(events) : IsDiagnostic(events[i]) <=> i <= 3
    /\ (pc = "idle" /\ result = "exhausted") =>
          /\ events # <<>>
          /\ events[Len(events)] = OutputEvent(MaxRetriesText)
          /\ \A i \in 1..Len(events) - 1 : events[i] # OutputEvent(MaxRetriesText)

\* C2: the attempt counter of a call stays within 0..max_retries + 1, is 0
\* when the call starts, counts the failed writes of the call one by one
\* (it equals the number of writes whenever the next write is due, and is
\* one behind while a write is being handled or has succeeded), and a call
\* makes at most max_retries + 1 writes.
C2_AttemptCounterBounded ==
    /\ retry_count \in 0..max_retries + 1
    /\ writes \in 0..max_retries + 1
    /\ pc = "setup" => retry_count = 0 /\ writes = 0
    /\ pc = "loop" => retry_count = writes /\ retry_count <= max_retries
    /\ pc \in DrainPcs \cup {"restart"} => writes = retry_count + 1
    /\ writes \in {retry_count, retry_count + 1}
    /\ (pc = "idle" /\ result = "exhausted") =>
          retry_count = max_retries + 1 /\ writes = max_retries + 1

\* A second call, made after a call that exhausted its retries, has counted
\* three failed writes from 0 and its fourth write has succeeded.
C2_Witness ==
    /\ calls = 2 /\ result = "exhausted"
    /\ pc = "drain_top" /\ retry_count = 3 /\ writes = 4

\* C3: a call that ends with the retries exhausted leaves the driver without
\* a live process, and the call after it starts a process before its first
\* write, with the attempt counter at 0.
C3_TornDownAfterExhaustion ==
    /\ (pc = "idle" /\ result = "exhausted") => process \notin live
    /\ (pc = "loop" /\ result = "exhausted" /\ writes = 0) =>
          call_starts >= 1 /\ retry_count = 0

\* C4: no failure of the lazy start, of the write or of the restart leaves
\* run as an exception: the call never ends by one.
C4_NoExceptionEscapes == result # "raised"

\* Number of exec channels the driver has opened: one by init_exec_instance
\* in each DockerProcWrapper that start_process has constructed.
ExecOpened == IF contain THEN nstarted ELSE 0

\* C12: over the life of a containerized driver the exec channel is opened
\* exactly once (once a process is held) and every submission is written to
\* the socket of that one channel.
C12_ExecOpenedOnce ==
    contain =>
        /\ ExecOpened <= 1
        /\ process # 0 => ExecOpened = 1
        /\ Cardinality(written) <= 1

\* The submissions whose output carries the end-of-execution marker.
MarkerCodes ==
    {c \in Codes : \E i \in 1..Len(ScriptOf(c).out) :
                       detect_end_of_execution(ScriptOf(c).out[i])}

\* C13: a call whose process output carries the end-of-execution marker ends
\* with the active_line = None event as its last event, after at most three
\* extra drains; a reader that is about to mark completion has put its event
\* on the queue already.
C13_EndsWithActiveLineNone ==
    /\ (pc = "idle" /\ result = "ok" /\ code \in MarkerCodes) =>
          /\ events # <<>>
          /\ events[Len(events)] = ActiveLineEvent(NoneValue)
    /\ pc = "extra" => drains <= 3
    /\ \A s \in Streams :
          reader_pc[s] = "set" =>
              \E i \in 1..Len(enq_hist) :
                  /\ enq_hist[i].stream = s
                  /\ enq_hist[i].ev \in {ActiveLineEvent(NoneValue),
                                         OutputEvent("KeyboardInterrupt")}

\* The events a process that prints on stdout only should give: one output
\* event per line, the active_line = None event for the marker.
ExpectedEvents(c) ==
    [i \in 1..Len(ScriptOf(c).out) |->
        IF detect_end_of_execution(ScriptOf(c).out[i])
        THEN ActiveLineEvent(NoneValue)
        ELSE OutputEvent(ScriptOf(c).out[i])]

\* The submissions that print lines and then the marker, on stdout only.
StdoutOnlyCodes == {"echo hi", "echo"}

\* C14: on a local driver whose process prints lines and then the marker on
\* stdout, the first call whose write succeeds at once yields the output
\* events of the lines in order and then active_line = None, nothing else
\* and nothing twice, at every moment a prefix of that and all of it when
\* the call has ended.
C14_LocalLinesThenMarker ==
    (/\ ~contain /\ calls = 1 /\ code \in StdoutOnlyCodes
     /\ writes = 1 /\ (pc \in DrainPcs \/ (pc = "idle" /\ result = "ok")))
    => /\ Len(events) <= Len(ExpectedEvents(code))
       /\ events = SubSeq(ExpectedEvents(code), 1, Len(events))
       /\ (pc = "idle" /\ result = "ok") => events = ExpectedEvents(code)

\* The local driver has run "echo hi": {output: hi}, {active_line: None}, end.
C14_Witness ==
    /\ ~contain /\ calls = 1 /\ code = "echo hi" /\ pc = "idle" /\ result = "ok"
    /\ events = <<OutputEvent("hi"), ActiveLineEvent(NoneValue)>>

\* C15: the queue holds exactly the events put and not yet yielded, in the
\* order they were put; what the call has yielded from the queue are the
\* oldest of them in that order, each once; and the events of one stream
\* were put in the order its lines were printed.
C15_YieldedInEnqueueOrder ==
    /\ nyielded + Len(output_queue) = Len(enq_hist)
    /\ \A i \in 1..Len(output_queue) : output_queue[i] = enq_hist[nyielded + i].ev
    /\ nyielded <= Len(events)
    /\ \A i \in 1..nyielded :
          events[Len(events) - nyielded + i] = enq_hist[i].ev
    /\ \A i, j \in 1..Len(enq_hist) :
          (i < j /\ enq_hist[i].stream = enq_hist[j].stream)
              => enq_hist[i].n < enq_hist[j].n

\* A call has yielded a stderr line between two stdout events.
C15_Witness ==
    /\ pc = "idle" /\ result = "ok" /\ code = "x=1"
    /\ events = <<ActiveLineEvent("1"), OutputEvent("warn"),
                  ActiveLineEvent(NoneValue)>>

\* C16: while the process is held, no line it has printed waits on a stream
\* whose reader has ended.
C16_ReadersKeepConsuming ==
    \A s \in Streams :
        (process # 0 /\ PendingLines(s) # <<>>) => reader_alive[s]

\* C31: no event the call in progress yields from the queue was left
\* there by an earlier call.
C31_NoEventOfEarlierCall ==
    [][(calls' = calls /\ nyielded' = nyielded + 1)
          => ~enq_hist[nyielded + 1].left]_vars

\* C32: when the break ends the sequence of a call, the queue is empty:
\* every event put before the end has been yielded.
C32_QueueEmptyAtEnd ==
    [][(pc = "extra" /\ pc' = "idle") => output_queue = <<>>]_vars

\* C33: at most one process created by the driver has not been terminated.
C33_OneLiveProcess == Cardinality(live) <= 1

\* The step is the reader of stream s taking a line.
TakesLine(s) == nread'[s] = nread[s] + 1 /\ calls' = calls

\* What the step has put on the queue.
Enqueued == SubSeq(output_queue', Len(output_queue) + 1, Len(output_queue'))

\* C23: a line a reader takes gives at most one event, by this priority: a
\* line the post-processor discards gives none; else an active-line marker
\* gives an active_line event; else the end marker gives active_line None
\* and marks completion; else a stderr line with the interruption notice
\* gives the diagnostic output and marks completion; else plain output.
\* Completion is marked by no other step.
C23_OneEventByPriority ==
    [][\A s \in Streams :
          /\ TakesLine(s) =>
                LET raw == Head(PendingLines(s))
                    line == line_postprocessor(raw)
                    marks == reader_pc'[s] = "set"
                IN  /\ output_queue' = output_queue \o Enqueued
                    /\ Len(Enqueued) <= 1
                    /\ done' = done
                    /\ IF ReadlineSentinel(raw) \/ line = NoneValue THEN
                           Enqueued = <<>> /\ ~marks
                       ELSE IF line = "##active_line1##" THEN
                           Enqueued = <<ActiveLineEvent("1")>> /\ ~marks
                       ELSE IF line = "__DONE__" THEN
                           Enqueued = <<ActiveLineEvent(NoneValue)>> /\ marks
                       ELSE IF s = "stderr" /\ line = "KeyboardInterrupt" THEN
                           Enqueued = <<OutputEvent("KeyboardInterrupt")>> /\ marks
                       ELSE
                           Enqueued = <<OutputEvent(line)>> /\ ~marks
          /\ (reader_pc'[s] = "set" /\ reader_pc[s] # "set") => TakesLine(s)
          /\ (done' /\ ~done) => \E r \in Streams : reader_pc[r] = "set"
      ]_vars

\* The interruption notice has come on both streams: the one of stdout is
\* queued as plain output, the one of stderr has marked completion.
C23_Witness ==
    /\ code = "sleep"
    /\ reader_pc["stderr"] = "set"
    /\ reader_pc["stdout"] = "read"
    /\ \E i \in 1..Len(enq_hist) :
           enq_hist[i].stream = "stdout"
           /\ enq_hist[i].ev = OutputEvent("KeyboardInterrupt")
    /\ \E i \in 1..Len(enq_hist) :
           enq_hist[i].stream = "stderr"
           /\ enq_hist[i].ev = OutputEvent("KeyboardInterrupt")

\* C24: the drain loop is left (the three extra drains, the break, the end
\* of the sequence) only with the completion flag set.
C24_ExitOnlyWhenDone ==
    (pc = "extra" \/ (pc = "idle" /\ result = "ok")) => done

\* The second call of a driver ended through the break, completion marked,
\* after it had yielded its events.
C24_Witness ==
    /\ pc = "idle" /\ result = "ok" /\ done
    /\ calls = 2
    /\ Len(events) >= 2

\* C25: after the queue wait that times out with completion marked, run
\* makes exactly three more drains, yields at most three more events and
\* ends; a drain loop with completion marked leads to the end of the call.
C25_ThreeExtraDrainsThenEnd ==
    /\ [](pc = "extra" => (drains \in 0..3 /\ extra_yields <= drains))
    /\ []((pc = "idle" /\ result = "ok") => (drains = 3 /\ extra_yields <= 3))
    /\ [][pc = "extra" =>
             \/ pc' = "extra" /\ drains' \in {drains, drains + 1}
             \/ drains = 3 /\ pc' = "idle" /\ result' = "ok"]_vars
    /\ ((pc \in DrainPcs /\ done) ~> (pc = "idle" /\ result = "ok"))

\* A call ended after an extra drain had yielded an event that came late.
C25_Witness ==
    /\ pc = "idle" /\ result = "ok"
    /\ extra_yields >= 1
    /\ output_queue = <<>>

\* C28: the except clause of the write starts a process only when attempts
\* remain, to retry the write on it; the failure that exhausts the attempts
\* ends the call without a start.
C28_RestartOnlyIfAttemptsRemain ==
    [][(pc = "restart" /\ nstarted' # nstarted) =>
          (pc' = "loop" /\ retry_count' <= max_retries)]_vars

\* C29: no process is started before the first call; a call up to its first
\* successful write has started at most one process, and that one only if
\* none had been started before; a process is started only by the setup
\* that finds none started yet or by the restart after a failed write.
C29_LazyStart ==
    /\ []((calls = 0 \/ nstarted = 0) => process = 0)
    /\ [](calls = 0 => nstarted = 0)
    /\ [](((pc = "loop" /\ writes = 0) \/ (pc \in DrainPcs /\ writes = 1)) =>
             /\ process # 0
             /\ call_starts <= 1
             /\ call_starts = 1 => nstarted = 1)
    /\ [][nstarted' # nstarted =>
             /\ nstarted' = nstarted + 1
             /\ pc = "restart" \/ (pc = "setup" /\ nstarted = 0)]_vars

\* The second call wrote at its first attempt to the process the first call
\* had started, and started none.
C29_Witness ==
    /\ calls = 2
    /\ pc \in DrainPcs /\ writes = 1
    /\ call_starts = 0
    /\ nstarted = 1 /\ process = 1

\* =========================================================================
\* DockerProcWrapper.init_container and wait_for_container_start, against a
\* container engine
\* =========================================================================

\* Session identifiers (basenames of session paths).
Sessions == {"s1", "s2"}

Wrappers == 1..MaxWrappers

\* timeout of wait_for_container_start, in seconds
timeout == 30

\* The listing without all=True: only the running containers of the label.
LabelledRunningOnly(s) ==
    {c \in 1..Len(engine) : engine[c].label = s /\ engine[c].state = "running"}

\* The containers of the engine that carry the label session_id=s, whatever
\* their state (all=True); a removed container is no longer the engine's.
Labelled(s) ==
    {c \in 1..Len(engine) : engine[c].label = s /\ engine[c].state # "removed"}

\* containers[0] of a non-empty listing: the engine lists the newest first.
First(cs) == CHOOSE c \in cs : \A d \in cs : d <= c

\* container_info.get("State", {}).get("Running")
Running(c) == engine[c].state = "running"

InitAcquire ==
    /\ engine = <<>>
    /\ wpc = [w \in Wrappers |-> "new"]
    /\ wid = [w \in Wrappers |-> "s1"]
    /\ wcontainer = [w \in Wrappers |-> 0]
    /\ welapsed = [w \in Wrappers |-> 0]
    /\ wcreates = [w \in Wrappers |-> 0]
    /\ wstarts = [w \in Wrappers |-> 0]
    /\ wprior = [w \in Wrappers |-> 0]
    /\ wrunning = [w \in Wrappers |-> FALSE]
    /\ wswallowed = [w \in Wrappers |-> FALSE]
    /\ wctor = [w \in Wrappers |-> "init_container"]
    /\ wexec = [w \in Wrappers |-> 0]
    /\ wbridge = [w \in Wrappers |-> FALSE]
    /\ workspace = {}
    /\ registered = <<>>
    /\ exit_pc = "none"
    /\ exit_idx = 0

\* The engine without containers and no wrapper constructed, for the
\* specifications of the other parts.
AcquireIdle == InitAcquire

\* The reference the last completed acquire for session s left, 0 if none.
LastReference(s) ==
    LET ws == {w \in Wrappers : wpc[w] = "done" /\ wid[w] = s /\ wcontainer[w] # 0}
    IN  IF ws = {} THEN 0 ELSE wcontainer[CHOOSE w \in ws : \A v \in ws : v <= w]

\* init_container returns: normally, or after its except clause has printed
\* the APIError it caught. (No step that returns changes self.container or the
\* engine.)
AcqReturn(w, swallowed) ==
    /\ wpc' = [wpc EXCEPT ![w] = "done"]
    /\ wswallowed' = [wswallowed EXCEPT ![w] = swallowed]
    /\ wrunning' = [wrunning EXCEPT ![w] =
                       wcontainer[w] # 0 /\ engine[wcontainer[w]].state = "running"]

\* DockerProcWrapper.__init__ up to the first line of init_container: the id
\* is the basename of the session path and self.container is None, the
\* wrapper is registered with atexit and the session directory is made if it
\* does not exist.
AcqBegin(w, s) ==
    /\ wpc[w] = "new"
    /\ exit_pc = "none"
    /\ registered' = Append(registered, w)
    /\ workspace' = workspace \cup {s}
    /\ UNCHANGED <<exit_pc, exit_idx>>
    /\ IF w = 1 THEN TRUE ELSE wpc[w - 1] # "new"
    /\ wid' = [wid EXCEPT ![w] = s]
    /\ wprior' = [wprior EXCEPT ![w] = LastReference(s)]
    /\ wcontainer' = [wcontainer EXCEPT ![w] = 0]
    /\ wpc' = [wpc EXCEPT ![w] = "list"]
    /\ UNCHANGED <<engine, welapsed, wcreates, wstarts, wrunning, wswallowed>>
    /\ UNCHANGED ctorVars
    /\ UNCHANGED nonAcquireVars

\* The same, called only when no other construction is under way.
AcqBeginSeq(w, s) ==
    /\ \A v \in Wrappers : \/ wpc[v] \in {"new", "raised"}
                           \/ wpc[v] = "done" /\ wctor[v] \in {"built", "raised"}
    /\ AcqBegin(w, s)

\* self.client.containers(filters={"label": ...}, all=True)
AcqList(w, ok) ==
    /\ wpc[w] = "list"
    /\ IF ~ok THEN
           /\ UNCHANGED wcontainer
           /\ AcqReturn(w, TRUE)
       ELSE IF Labelled(wid[w]) # {} THEN
           /\ wcontainer' = [wcontainer EXCEPT ![w] = First(Labelled(wid[w]))]
           /\ wpc' = [wpc EXCEPT ![w] = "inspect"]
           /\ UNCHANGED <<wrunning, wswallowed>>
       ELSE
           /\ wpc' = [wpc EXCEPT ![w] = "create"]
           /\ UNCHANGED <<wcontainer, wrunning, wswallowed>>
    /\ UNCHANGED <<engine, wid, welapsed, wcreates, wstarts, wprior>>
    /\ UNCHANGED <<ctorVars, exitVars>>
    /\ UNCHANGED nonAcquireVars

\* self.client.inspect_container(container_id) of the container found
AcqInspect(w, ok) ==
    /\ wpc[w] = "inspect"
    /\ IF ~ok THEN AcqReturn(w, TRUE)
       ELSE IF ~Running(wcontainer[w]) THEN
           /\ wpc' = [wpc EXCEPT ![w] = "start"]
           /\ UNCHANGED <<wrunning, wswallowed>>
       ELSE AcqReturn(w, FALSE)
    /\ UNCHANGED <<engine, wid, wcontainer, welapsed, wcreates, wstarts, wprior>>
    /\ UNCHANGED <<ctorVars, exitVars>>
    /\ UNCHANGED nonAcquireVars

\* self.client.create_container(..., labels={"session_id": self.id}, ...)
AcqCreate(w, ok) ==
    /\ wpc[w] = "create"
    /\ wcreates' = [wcreates EXCEPT ![w] = @ + 1]
    /\ IF ~ok THEN
           /\ UNCHANGED <<engine, wcontainer>>
           /\ AcqReturn(w, TRUE)
       ELSE
           /\ engine' = Append(engine, [label |-> wid[w], state |-> "created"])
           /\ wcontainer' = [wcontainer EXCEPT ![w] = Len(engine) + 1]
           /\ wpc' = [wpc EXCEPT ![w] = "start"]
           /\ UNCHANGED <<wrunning, wswallowed>>
    /\ UNCHANGED <<wid, welapsed, wstarts, wprior>>
    /\ UNCHANGED <<ctorVars, exitVars>>
    /\ UNCHANGED nonAcquireVars

\* self.client.start(container=...), then the first line of
\* wait_for_container_start: start_time = time.time()
AcqStart(w, ok) ==
    /\ wpc[w] = "start"
    /\ wstarts' = [wstarts EXCEPT ![w] = @ + 1]
    /\ IF ~ok THEN
           /\ UNCHANGED <<engine, welapsed>>
           /\ AcqReturn(w, TRUE)
       ELSE
           /\ engine' = [engine EXCEPT ![wcontainer[w]].state =
                            IF @ = "running" THEN @ ELSE "starting"]
           /\ welapsed' = [welapsed EXCEPT ![w] = 0]
           /\ wpc' = [wpc EXCEPT ![w] = "wait"]
           /\ UNCHANGED <<wrunning, wswallowed>>
    /\ UNCHANGED <<wid, wcontainer, wcreates, wprior>>
    /\ UNCHANGED <<ctorVars, exitVars>>
    /\ UNCHANGED nonAcquireVars

\* time.time() - start_time > timeout
TimedOut(elapsed) == elapsed > timeout

\* One iteration of the loop of wait_for_container_start: inspect, return
\* if running, raise TimeoutError if the time is up, else sleep one second.
\* (The local start_time ends with a return: the count goes back to 0.)
AcqWaitPoll(w, ok) ==
    /\ wpc[w] = "wait"
    /\ IF ~ok THEN
           /\ welapsed' = [welapsed EXCEPT ![w] = 0]
           /\ AcqReturn(w, TRUE)
       ELSE IF Running(wcontainer[w]) THEN
           /\ welapsed' = [welapsed EXCEPT ![w] = 0]
           /\ AcqReturn(w, FALSE)
       ELSE IF TimedOut(welapsed[w]) THEN
           /\ wpc' = [wpc EXCEPT ![w] = "raised"]
           /\ UNCHANGED <<welapsed, wrunning, wswallowed>>
       ELSE
           /\ welapsed' = [welapsed EXCEPT ![w] = @ + 1]
           /\ UNCHANGED <<wpc, wrunning, wswallowed>>
    /\ UNCHANGED <<engine, wid, wcontainer, wcreates, wstarts, wprior>>
    /\ UNCHANGED <<ctorVars, exitVars>>
    /\ UNCHANGED nonAcquireVars

\* The engine brings a started container up.
EngineRuns(c) ==
    /\ c \in 1..Len(engine)
    /\ engine[c].state = "starting"
    /\ engine' = [engine EXCEPT ![c].state = "running"]
    /\ UNCHANGED <<wpc, wid, wcontainer, welapsed, wcreates, wstarts, wprior,
                   wrunning, wswallowed>>
    /\ UNCHANGED <<ctorVars, exitVars>>
    /\ UNCHANGED nonAcquireVars

\* A running container exits.
EngineExits(c) ==
    /\ c \in 1..Len(engine)
    /\ engine[c].state = "running"
    /\ engine' = [engine EXCEPT ![c].state = "exited"]
    /\ UNCHANGED <<wpc, wid, wcontainer, welapsed, wcreates, wstarts, wprior,
                   wrunning, wswallowed>>
    /\ UNCHANGED <<ctorVars, exitVars>>
    /\ UNCHANGED nonAcquireVars

\* init_exec_instance, after init_container has returned: nothing without a
\* container reference; else exec_create and exec_start, which the engine
\* refuses (an APIError, which leaves __init__) for a container that does not
\* run and may refuse for one that does.
init_exec_instance(w, ok) ==
    /\ wpc[w] = "done"
    /\ wctor[w] = "init_container"
    /\ IF wcontainer[w] = 0 THEN
           /\ wctor' = [wctor EXCEPT ![w] = "exec_done"]
           /\ UNCHANGED wexec
       ELSE
           /\ wexec' = [wexec EXCEPT ![w] = @ + 1]
           /\ wctor' = [wctor EXCEPT ![w] =
                           IF ok /\ Running(wcontainer[w]) THEN "exec_done"
                                                           ELSE "raised"]
    /\ UNCHANGED <<engine, wpc, wid, wcontainer, welapsed, wcreates, wstarts,
                   wprior, wrunning, wswallowed, wbridge>>
    /\ UNCHANGED exitVars
    /\ UNCHANGED nonAcquireVars

\* The rest of __init__: the DockerStreamWrapper is built over
\* (self.exec_id, self.exec_socket), whatever they are, and the start command
\* is written to its stdin.
BuildWrapper(w) ==
    /\ wctor[w] = "exec_done"
    /\ wbridge' = [wbridge EXCEPT ![w] = TRUE]
    /\ wctor' = [wctor EXCEPT ![w] = "built"]
    /\ UNCHANGED <<engine, wpc, wid, wcontainer, welapsed, wcreates, wstarts,
                   wprior, wrunning, wswallowed, wexec>>
    /\ UNCHANGED exitVars
    /\ UNCHANGED nonAcquireVars

\* ---- interpreter exit: the atexit handlers ----

\* No construction is under way.
NoConstruction ==
    \A v \in Wrappers :
        \/ wpc[v] \in {"new", "raised"}
        \/ wpc[v] = "done" /\ wctor[v] \in {"built", "raised"}

\* The wrapper whose handler is in progress.
ExitWrapper == registered[exit_idx]

\* A handler returns or raises (atexit prints the exception and goes on):
\* the handler registered before it is next.
HandlerEnds ==
    IF exit_idx > 1 THEN /\ exit_idx' = exit_idx - 1
                         /\ exit_pc' = "rmtree"
                    ELSE /\ exit_idx' = 0
                         /\ exit_pc' = "finished"

\* The interpreter exits: atexit runs the registered handlers, the last
\* registered first.
Shutdown ==
    /\ exit_pc = "none"
    /\ NoConstruction
    /\ registered # <<>>
    /\ exit_pc' = "rmtree"
    /\ exit_idx' = Len(registered)
    /\ UNCHANGED <<engine, wpc, wid, wcontainer, welapsed, wcreates, wstarts,
                   wprior, wrunning, wswallowed, ctorVars, workspace, registered>>
    /\ UNCHANGED nonAcquireVars

\* atexit_destroy: shutil.rmtree(self.session_path), which raises
\* FileNotFoundError for a directory that is not there.
ExitRmtree ==
    /\ exit_pc = "rmtree"
    /\ IF wid[ExitWrapper] \in workspace THEN
           /\ workspace' = workspace \ {wid[ExitWrapper]}
           /\ exit_pc' = "stop"
           /\ UNCHANGED exit_idx
       ELSE
           /\ HandlerEnds
           /\ UNCHANGED workspace
    /\ UNCHANGED <<engine, wpc, wid, wcontainer, welapsed, wcreates, wstarts,
                   wprior, wrunning, wswallowed, ctorVars, registered>>
    /\ UNCHANGED nonAcquireVars

\* atexit_destroy: self.client.stop(self.container.get("Id")). With
\* self.container None the attribute access raises; the engine answers a
\* stop of a removed container with an APIError.
ExitStop ==
    /\ exit_pc = "stop"
    /\ IF wcontainer[ExitWrapper] = 0 THEN
           /\ HandlerEnds
           /\ UNCHANGED engine
       ELSE IF engine[wcontainer[ExitWrapper]].state = "removed" THEN
           /\ HandlerEnds
           /\ UNCHANGED engine
       ELSE
           /\ engine' = [engine EXCEPT ![wcontainer[ExitWrapper]].state =
                            IF @ \in {"running", "starting"} THEN "exited" ELSE @]
           /\ exit_pc' = "remove"
           /\ UNCHANGED exit_idx
    /\ UNCHANGED <<wpc, wid, wcontainer, welapsed, wcreates, wstarts,
                   wprior, wrunning, wswallowed, ctorVars, workspace, registered>>
    /\ UNCHANGED nonAcquireVars

\* atexit_destroy: self.client.remove_container(self.container.get("Id"))
ExitRemove ==
    /\ exit_pc = "remove"
    /\ engine' = [engine EXCEPT ![wcontainer[ExitWrapper]].state = "removed"]
    /\ HandlerEnds
    /\ UNCHANGED <<wpc, wid, wcontainer, welapsed, wcreates, wstarts,
                   wprior, wrunning, wswallowed, ctorVars, workspace, registered>>
    /\ UNCHANGED nonAcquireVars

AcquireSteps ==
    \/ \E w \in Wrappers, ok \in BOOLEAN : AcqList(w, ok)
    \/ \E w \in Wrappers, ok \in BOOLEAN : AcqInspect(w, ok)
    \/ \E w \in Wrappers, ok \in BOOLEAN : AcqCreate(w, ok)
    \/ \E w \in Wrappers, ok \in BOOLEAN : AcqStart(w, ok)
    \/ \E w \in Wrappers, ok \in BOOLEAN : AcqWaitPoll(w, ok)
    \/ \E c \in 1..MaxWrappers : EngineRuns(c)
    \/ \E c \in 1..MaxWrappers : EngineExits(c)
    \/ \E w \in Wrappers, ok \in BOOLEAN : init_exec_instance(w, ok)
    \/ \E w \in Wrappers : BuildWrapper(w)

\* Constructions that may overlap (two drivers of one session, two threads).
NextAcquire ==
    \/ \E w \in Wrappers, s \in Sessions : AcqBegin(w, s)
    \/ AcquireSteps

\* Constructions one after the other.
NextAcquireSeq ==
    \/ \E w \in Wrappers, s \in Sessions : AcqBeginSeq(w, s)
    \/ AcquireSteps
    \/ Shutdown
    \/ ExitRmtree
    \/ ExitStop
    \/ ExitRemove

\* ---- properties of the session containers ----

\* C8: an acquire that begins after an earlier acquire of the same session has
\* returned a container reference issues no create-container call and refers
\* to no other container than that one; when it returns without an engine
\* failure, its reference is that container.
C8_SecondAcquireReuses ==
    \A w \in Wrappers :
        wprior[w] # 0 =>
            /\ wcreates[w] = 0
            /\ wcontainer[w] \in {0, wprior[w]}
            /\ (wpc[w] = "done" /\ ~wswallowed[w]) => wcontainer[w] = wprior[w]

\* The second acquire of a session found the container of the first one
\* stopped, started it and returned a reference to it.
C8_Witness ==
    /\ wpc[2] = "done" /\ ~wswallowed[2]
    /\ wprior[2] # 0 /\ wcontainer[2] = wprior[2]
    /\ wstarts[2] = 1 /\ wcreates[2] = 0

\* C9: at most one container carries a given session_id label, whatever the
\* interleaving of the acquires.
C9_OneContainerPerSession ==
    \A s \in Sessions : Cardinality(Labelled(s)) <= 1

\* C10: an acquire that returns with a container reference returns while
\* that container is running; the readiness wait does not poll past the
\* timeout and raises its TimeoutError only after the timeout.
C10_ReferenceIsRunning ==
    \A w \in Wrappers :
        /\ (wpc[w] = "done" /\ wcontainer[w] # 0) => wrunning[w]
        /\ wpc[w] = "wait" => welapsed[w] <= timeout + 1
        /\ wpc[w] = "raised" => welapsed[w] > timeout

\* C11: a construction whose init_container met a failed engine call (list,
\* inspect, create or start) ends by reporting it: it issues no exec_create
\* and builds no stream bridge.
C11_EngineFailureAborts ==
    \A w \in Wrappers :
        wswallowed[w] => /\ wexec[w] = 0
                         /\ ~wbridge[w]
                         /\ wctor[w] \notin {"exec_done", "built"}

\* An exec channel of wrapper w is open: exec_create and exec_start went
\* through on its container (nothing in the wrapper closes the socket).
ExecOpen(w) ==
    /\ wcontainer[w] # 0
    /\ wexec[w] > 0
    /\ wctor[w] \in {"exec_done", "built"}
    /\ engine[wcontainer[w]].state # "removed"

\* C21: when the atexit handlers have all run, every session a wrapper was
\* constructed for has no container left at the engine and no workspace
\* directory.
C21_ShutdownCleansSessions ==
    exit_pc = "finished" =>
        \A i \in 1..Len(registered) :
            /\ wid[registered[i]] \notin workspace
            /\ Labelled(wid[registered[i]]) = {}

\* C22: no two open exec channels are on the same container.
C22_OneExecChannelPerContainer ==
    \A w \in Wrappers : \A v \in Wrappers :
        (w # v /\ ExecOpen(w) /\ ExecOpen(v)) => wcontainer[w] # wcontainer[v]

\* C27: the workspace directory of a session exists as long as a container
\* of the session runs: teardown stops the container before it removes the
\* directory.
C27_WorkspaceOutlivesContainer ==
    \A c \in 1..Len(engine) :
        engine[c].state = "running" => engine[c].label \in workspace

\* =========================================================================
\* DockerStreamWrapper.Stream.readline, over the pipe _listen writes to
\* =========================================================================

\* n of os.read(self._read_fd, 1024)
ReadSize == 1024

\* '\n'
Newline == 10

\* 1023 one-byte characters, then a two-byte character and a newline: the
\* two-byte character lies across byte 1024.
LongPayload == [i \in 1..1023 |-> 97] \o <<195, 169, Newline>>

\* Payloads of the stdout frames the remote end sends: "1\n", "a", an empty
\* line, U+00E9 and a newline, and the long one.
LinePayloads == {<<49, Newline>>, <<97>>, <<Newline>>, <<195, 169, Newline>>,
                 LongPayload}

\* '\n' in text
HasNewline(text) == \E i \in 1..Len(text) : text[i] = Newline

\* text.find('\n'), as a position from 1, for a text that holds a newline
FindNewline(text) ==
    CHOOSE i \in 1..Len(text) :
        text[i] = Newline /\ \A j \in 1..i - 1 : text[j] # Newline

InitReadline ==
    /\ rl_pipe = <<>>
    /\ rl_buffer = <<>>
    /\ rl_pc = "idle"
    /\ rl_nwrites = 0
    /\ rl_written = <<>>
    /\ rl_lines = <<>>
    /\ rl_last = "none"
    /\ rl_wait = 0
    /\ rl_total = 0

\* timeout of Stream.readline, in seconds
readline_timeout == 3

\* The line reader as constructed, for the specifications of the other parts.
ReadlineIdle == InitReadline

\* _listen has received one whole stdout frame with payload p: it writes the
\* text it decoded, encoded again, to the pipe in one os.write.
PipeWrite(p) ==
    /\ rl_nwrites < MaxPipeWrites
    /\ rl_nwrites' = rl_nwrites + 1
    /\ LET out == demux_docker_stream(FrameBytes([tag |-> 1, payload |-> p]))
       IN  /\ rl_pipe' = rl_pipe \o Utf8Encode(out.stdout)
           /\ rl_written' = rl_written \o Utf8Encode(out.stdout)
    /\ UNCHANGED <<rl_buffer, rl_pc, rl_lines, rl_last, rl_wait, rl_total>>
    /\ UNCHANGED nonReadlineVars

\* readline(timeout=3) is called.
ReadlineCall ==
    /\ rl_pc = "idle"
    /\ rl_pc' = "loop"
    /\ rl_wait' = 0
    /\ rl_total' = 0
    /\ UNCHANGED <<rl_pipe, rl_buffer, rl_nwrites, rl_written, rl_lines, rl_last>>
    /\ UNCHANGED nonReadlineVars

\* A second passes in select.select([self._read_fd], [], [], timeout) with
\* nothing to read.
ReadlineWait ==
    /\ rl_pc = "loop"
    /\ ~HasNewline(rl_buffer)
    /\ rl_pipe = <<>>
    /\ rl_wait < readline_timeout
    /\ rl_wait' = rl_wait + 1
    /\ rl_total' = rl_total + 1
    /\ UNCHANGED <<rl_pipe, rl_buffer, rl_pc, rl_nwrites, rl_written, rl_lines,
                   rl_last>>
    /\ UNCHANGED nonReadlineVars

\* An iteration of `while '\n' not in self._buffer` with data in the pipe:
\* up to 1024 bytes are read, decoded on their own and appended; the select
\* of the next iteration waits anew.
ReadlineRead ==
    /\ rl_pc = "loop"
    /\ ~HasNewline(rl_buffer)
    /\ rl_pipe # <<>>
    /\ LET chunk == Utf8Decode(Slice(rl_pipe, 0, ReadSize))
       IN  /\ rl_pipe' = Slice(rl_pipe, ReadSize, Len(rl_pipe))
           /\ IF chunk.raised
              THEN rl_pc' = "raised" /\ UNCHANGED rl_buffer
              ELSE rl_buffer' = rl_buffer \o chunk.text /\ UNCHANGED rl_pc
    /\ rl_wait' = 0
    /\ UNCHANGED <<rl_nwrites, rl_written, rl_lines, rl_last, rl_total>>
    /\ UNCHANGED nonReadlineVars

\* The select of an iteration times out on an empty pipe: return ''.
ReadlineTimeout ==
    /\ rl_pc = "loop"
    /\ ~HasNewline(rl_buffer)
    /\ rl_pipe = <<>>
    /\ rl_wait = readline_timeout
    /\ rl_pc' = "idle"
    /\ rl_last' = "timeout"
    /\ UNCHANGED <<rl_pipe, rl_buffer, rl_nwrites, rl_written, rl_lines,
                   rl_wait, rl_total>>
    /\ UNCHANGED nonReadlineVars

\* The buffer holds a newline: the text before it is returned and the text
\* after it stays.
ReadlineReturn ==
    /\ rl_pc = "loop"
    /\ HasNewline(rl_buffer)
    /\ LET newline_pos == FindNewline(rl_buffer)
       IN  /\ rl_lines' = Append(rl_lines, SubSeq(rl_buffer, 1, newline_pos - 1))
           /\ rl_buffer' = SubSeq(rl_buffer, newline_pos + 1, Len(rl_buffer))
    /\ rl_pc' = "idle"
    /\ rl_last' = "line"
    /\ UNCHANGED <<rl_pipe, rl_nwrites, rl_written, rl_wait, rl_total>>
    /\ UNCHANGED nonReadlineVars

NextReadline ==
    \/ \E p \in LinePayloads : PipeWrite(p)
    \/ ReadlineCall
    \/ ReadlineWait
    \/ ReadlineRead
    \/ ReadlineTimeout
    \/ ReadlineReturn

\* The lines, each with its newline again, one after the other.
RECURSIVE JoinLines(_)
JoinLines(ls) ==
    IF ls = <<>> THEN <<>> ELSE Head(ls) \o <<Newline>> \o JoinLines(Tail(ls))

\* C17: no readline call fails; the lines returned, with their newlines,
\* then the buffer, then what is still in the pipe, are the text written to
\* the pipe, nothing lost and nothing twice; a line returned holds no
\* newline; a call that has timed out has left no complete line in the
\* buffer.
C17_ReadlineReturnsWrittenLines ==
    /\ rl_pc # "raised"
    /\ Utf8Decode(rl_written).text
           = JoinLines(rl_lines) \o rl_buffer \o Utf8Decode(rl_pipe).text
    /\ \A i \in 1..Len(rl_lines) : ~HasNewline(rl_lines[i])
    /\ (rl_pc = "idle" /\ rl_last = "timeout") => ~HasNewline(rl_buffer)

\* C30: a readline call that returns '' for want of a complete line has
\* waited no longer than its timeout in all, and no call in progress has.
C30_TotalWaitBounded ==
    /\ rl_pc = "loop" => rl_total <= readline_timeout
    /\ (rl_pc = "idle" /\ rl_last = "timeout") => rl_total <= readline_timeout

\* =========================================================================
\* DockerStreamWrapper._listen, the stdin branch; DockerStreamWrapper.close
\* =========================================================================

\* n of os.read(self._stdin_r, 2048)
StdinReadSize == 2048

\* The characters of the escaping convention: backslash, the two quotes, n.
Backslash == 92

SingleQuote == 39

DoubleQuote == 34

LetterN == 110

\* re.sub(r'\\([\'"])', r"\1", text): from left to right, a backslash
\* followed by a quote gives the quote.
RECURSIVE UnescapeQuotes(_)
UnescapeQuotes(text) ==
    IF text = <<>> THEN <<>>
    ELSE IF /\ text[1] = Backslash /\ Len(text) >= 2
            /\ text[2] \in {SingleQuote, DoubleQuote}
         THEN <<text[2]>> \o UnescapeQuotes(Tail(Tail(text)))
    ELSE <<text[1]>> \o UnescapeQuotes(Tail(text))

\* text.replace("\\n", "\n"): from left to right, a backslash followed by
\* the letter n gives a newline.
RECURSIVE ReplaceNewlines(_)
ReplaceNewlines(text) ==
    IF text = <<>> THEN <<>>
    ELSE IF text[1] = Backslash /\ Len(text) >= 2 /\ text[2] = LetterN
         THEN <<Newline>> \o ReplaceNewlines(Tail(Tail(text)))
    ELSE <<text[1]>> \o ReplaceNewlines(Tail(text))

\* What _listen does to the text of one chunk.
Unescape(text) == ReplaceNewlines(UnescapeQuotes(text))

\* A line cut before its newline.
LineOfNoNewline(buf) == SubSeq(buf, 1, FindNewline(buf) - 1)

\* self._stdin_buffer[: newline_pos + 1], the first line with its newline
LineOf(buf) == SubSeq(buf, 1, FindNewline(buf))

\* The loop `while b"\n" in self._stdin_buffer`: the lines it passes to
\* sendall, and what it leaves in the buffer.
RECURSIVE SendLoop(_, _)
SendLoop(buf, sent) ==
    IF HasNewline(buf)
    THEN SendLoop(SubSeq(buf, FindNewline(buf) + 1, Len(buf)),
                  Append(sent, LineOf(buf)))
    ELSE [sent |-> sent, rest |-> buf]

\* The pieces of text a writer passes to stdin.write and flushes: 'a\',
\* 'n' and a newline, a literal backslash-n, '\"a', a quote and a newline,
\* and U+00E9.
Pieces == {<<97, Backslash>>, <<LetterN, Newline>>, <<Backslash, LetterN>>,
           <<Backslash, DoubleQuote, 97>>, <<DoubleQuote, Newline>>, <<233>>}

\* The descriptors DockerStreamWrapper.__init__ allocates with os.pipe().
AllFds == {"stdout_r", "stdout_w", "stderr_r", "stderr_w", "stdin_r", "stdin_w"}

InitStdin ==
    /\ si_pipe = <<>>
    /\ si_buffer = <<>>
    /\ si_nwrites = 0
    /\ si_input = <<>>
    /\ si_unescaped = <<>>
    /\ si_sent = <<>>
    /\ stop_event = FALSE
    /\ listen_state = "running"
    /\ close_pc = "none"
    /\ fds_open = AllFds
    /\ out_fill = 0

\* The bridge as constructed, for the specifications of the other parts.
StdinIdle == InitStdin

\* self.stdin.write(piece) and flush: the encoded text enters the pipe.
StdinWrite(piece) ==
    /\ si_nwrites < MaxStdinWrites
    /\ "stdin_w" \in fds_open
    /\ si_nwrites' = si_nwrites + 1
    /\ si_pipe' = si_pipe \o Utf8Encode(piece)
    /\ si_input' = si_input \o piece
    /\ UNCHANGED <<si_buffer, si_unescaped, si_sent, stop_event, listen_state,
                   close_pc, fds_open>>
    /\ UNCHANGED out_fill
    /\ UNCHANGED nonStdinVars

\* One iteration of _listen in which the stdin pipe is ready: what is there
\* (up to 2048 bytes) is read and decoded, unescaped on its own, appended to
\* the buffer, and every whole line of the buffer is sent.
ListenStdin ==
    /\ listen_state = "running"
    /\ si_pipe # <<>>
    /\ si_pipe' = Slice(si_pipe, StdinReadSize, Len(si_pipe))
    /\ LET read == Utf8Decode(Slice(si_pipe, 0, StdinReadSize))
           data_to_write == Unescape(read.text)
           out == SendLoop(si_buffer \o Utf8Encode(data_to_write), <<>>)
       IN  IF read.raised
           THEN /\ listen_state' = "died"
                /\ UNCHANGED <<si_buffer, si_unescaped, si_sent>>
           ELSE /\ si_unescaped' = si_unescaped \o data_to_write
                /\ si_buffer' = out.rest
                /\ si_sent' = si_sent \o out.sent
                /\ UNCHANGED listen_state
    /\ UNCHANGED <<si_nwrites, si_input, stop_event, close_pc, fds_open>>
    /\ UNCHANGED out_fill
    /\ UNCHANGED nonStdinVars

\* One iteration of _listen, begun with the stop event clear, in which the
\* socket is ready: the chunk received is written to the stdout pipe with
\* os.write, which returns if the pipe has room and else blocks until a
\* reader makes room.
ListenSock ==
    /\ listen_state = "running"
    /\ ~stop_event
    /\ IF out_fill < PipeCapacity
       THEN out_fill' = out_fill + 1 /\ UNCHANGED listen_state
       ELSE listen_state' = "blocked" /\ UNCHANGED out_fill
    /\ UNCHANGED <<si_pipe, si_buffer, si_nwrites, si_input, si_unescaped,
                   si_sent, stop_event, close_pc, fds_open>>
    /\ UNCHANGED nonStdinVars

\* A reader of the stdout stream takes a chunk out of the pipe (the os.read
\* of Stream.readline): a write that was blocked goes through.
StdoutRead ==
    /\ out_fill > 0
    /\ "stdout_r" \in fds_open
    /\ IF listen_state = "blocked"
       THEN listen_state' = "running" /\ UNCHANGED out_fill
       ELSE out_fill' = out_fill - 1 /\ UNCHANGED listen_state
    /\ UNCHANGED <<si_pipe, si_buffer, si_nwrites, si_input, si_unescaped,
                   si_sent, stop_event, close_pc, fds_open>>
    /\ UNCHANGED nonStdinVars

\* `while not self._stop_event.is_set()` finds the event set: _listen returns.
ListenExit ==
    /\ listen_state = "running"
    /\ stop_event
    /\ listen_state' = "exited"
    /\ UNCHANGED <<si_pipe, si_buffer, si_nwrites, si_input, si_unescaped,
                   si_sent, stop_event, close_pc, fds_open>>
    /\ UNCHANGED out_fill
    /\ UNCHANGED nonStdinVars

\* close(): self._stop_event.set()
CloseSetStop ==
    /\ close_pc = "none"
    /\ stop_event' = TRUE
    /\ close_pc' = "join"
    /\ UNCHANGED <<si_pipe, si_buffer, si_nwrites, si_input, si_unescaped,
                   si_sent, listen_state, fds_open>>
    /\ UNCHANGED out_fill
    /\ UNCHANGED nonStdinVars

\* close(): self._thread.join() returns once the thread has ended.
CloseJoin ==
    /\ close_pc = "join"
    /\ listen_state \in {"exited", "died"}
    /\ close_pc' = "close_fds"
    /\ UNCHANGED <<si_pipe, si_buffer, si_nwrites, si_input, si_unescaped,
                   si_sent, stop_event, listen_state, fds_open>>
    /\ UNCHANGED out_fill
    /\ UNCHANGED nonStdinVars

\* close(): the four os.close calls, then the return.
CloseFds ==
    /\ close_pc = "close_fds"
    /\ fds_open' = fds_open \ {"stdout_r", "stdout_w", "stderr_r", "stderr_w"}
    /\ close_pc' = "closed"
    /\ UNCHANGED <<si_pipe, si_buffer, si_nwrites, si_input, si_unescaped,
                   si_sent, stop_event, listen_state>>
    /\ UNCHANGED out_fill
    /\ UNCHANGED nonStdinVars

NextStdin ==
    \/ \E piece \in Pieces : StdinWrite(piece)
    \/ ListenStdin
    \/ ListenSock
    \/ StdoutRead
    \/ ListenExit
    \/ CloseSetStop
    \/ CloseJoin
    \/ CloseFds

\* The byte strings, one after the other.
RECURSIVE ConcatAll(_)
ConcatAll(ss) == IF ss = <<>> THEN <<>> ELSE Head(ss) \o ConcatAll(Tail(ss))

C19_UnescapeAcrossChunks ==
    /\ listen_state # "died"
    /\ si_pipe = <<>> =>
          ConcatAll(si_sent) \o si_buffer = Utf8Encode(Unescape(si_input))

\* C20: when close() has returned the loop has ended and no pipe descriptor
\* of the bridge is open; while the loop runs all of them are open.
C20_CloseReleasesDescriptors ==
    /\ close_pc = "closed" => (listen_state # "running" /\ fds_open = {})
    /\ listen_state = "running" => fds_open = AllFds

\* C26: once close() has set the stop event, the loop ends and close()
\* returns.
C26_CloseReturns == (close_pc = "join") ~> (close_pc = "closed")

\* =========================================================================
\* handle_undo, on the message history of the terminal interface
\* =========================================================================

\* message.get('role') of the messages of the model
Roles == {"user", "assistant", "function"}

\* last_user_index = None
NoIndex == 0 - 1

\* A scan that keeps the first index found.
RECURSIVE ScanFirstUser(_, _, _)
ScanFirstUser(ms, i, last) ==
    IF i >= Len(ms) THEN last
    ELSE ScanFirstUser(ms, i + 1,
                       IF ms[i + 1].role = "user" /\ last = NoIndex THEN i ELSE last)

\* `for i, message in enumerate(self.messages)`, from index i on (indices
\* from 0): last_user_index = i for every message of role 'user'.
RECURSIVE ScanLastUser(_, _, _)
ScanLastUser(ms, i, last) ==
    IF i >= Len(ms) THEN last
    ELSE ScanLastUser(ms, i + 1, IF ms[i + 1].role = "user" THEN i ELSE last)

\* self.messages after handle_undo: untouched if empty or without index,
\* else self.messages[:last_user_index].
AfterUndo(ms) ==
    LET last_user_index == ScanLastUser(ms, 0, NoIndex)
    IN  IF Len(ms) = 0 THEN ms
        ELSE IF last_user_index # NoIndex THEN SubSeq(ms, 1, last_user_index)
        ELSE ms

InitUndo ==
    /\ messages = <<>>
    /\ nmessages = 0
    /\ undo_prev = <<>>
    /\ undone = FALSE

\* The history as constructed, for the specifications of the other parts.
UndoIdle == InitUndo

\* The conversation appends a message of role r.
AddMessage(r) ==
    /\ nmessages < MaxMessages
    /\ nmessages' = nmessages + 1
    /\ messages' = Append(messages, [role |-> r, id |-> nmessages + 1])
    /\ undo_prev' = <<>>
    /\ undone' = FALSE
    /\ UNCHANGED nonUndoVars

\* %undo: handle_undo(self, arguments)
handle_undo ==
    /\ messages' = AfterUndo(messages)
    /\ undo_prev' = messages
    /\ undone' = TRUE
    /\ UNCHANGED nmessages
    /\ UNCHANGED nonUndoVars

NextUndo ==
    \/ \E r \in Roles : AddMessage(r)
    \/ handle_undo

\* The places of the messages of role 'user' in a history.
UserPlaces(ms) == {i \in 1..Len(ms) : ms[i].role = "user"}

\* C34: after handle_undo the history is what it was before the most recent
\* message of role 'user', in the same order; a history that was empty or
\* held no user message is as it was.
C34_UndoRemovesFromLastUser ==
    undone =>
        IF UserPlaces(undo_prev) = {} THEN messages = undo_prev
        ELSE \E k \in UserPlaces(undo_prev) :
                 /\ \A j \in UserPlaces(undo_prev) : j <= k
                 /\ messages = SubSeq(undo_prev, 1, k - 1)

\* An undo has removed the second user message and the answer to it and
\* left the first user message and its answer.
C34_Witness ==
    /\ undone
    /\ Len(undo_prev) = 4
    /\ undo_prev[3].role = "user" /\ undo_prev[4].role = "assistant"
    /\ Len(messages) = 2
    /\ messages[1].role = "user" /\ messages[2].role = "assistant"

BridgeStart == InitBridge /\ RunIdle /\ AcquireIdle /\ ReadlineIdle /\ StdinIdle /\ UndoIdle

SpecBridge == BridgeStart /\ [][NextBridge]_vars

RunStart == InitRun /\ BridgeIdle /\ AcquireIdle /\ ReadlineIdle /\ StdinIdle /\ UndoIdle

\* The driver of a container, given the submission with a late stderr line
\* and the one whose empty line ends the stdout reader; the thread that
\* iterates run's generator keeps running.
RunFairStart == RunIdle /\ BridgeIdle /\ AcquireIdle /\ ReadlineIdle /\ StdinIdle /\ UndoIdle

RunThread == DrainTop \/ DrainGet \/ DrainTimeout \/ ExtraDrain \/ DrainBreak

SpecRunFair == RunFairStart /\ [][NextRunFair]_vars /\ WF_vars(RunThread)

SpecRun == RunStart /\ [][NextRun]_vars

AcquireStart == InitAcquire /\ BridgeIdle /\ RunIdle /\ ReadlineIdle /\ StdinIdle /\ UndoIdle

SpecAcquire == AcquireStart /\ [][NextAcquire]_vars

SpecAcquireSeq == AcquireStart /\ [][NextAcquireSeq]_vars

ReadlineStart == InitReadline /\ BridgeIdle /\ RunIdle /\ AcquireIdle /\ StdinIdle /\ UndoIdle

SpecReadline == ReadlineStart /\ [][NextReadline]_vars

StdinStart == InitStdin /\ BridgeIdle /\ RunIdle /\ AcquireIdle /\ ReadlineIdle /\ UndoIdle

\* The threads of the bridge and of the caller of close() keep running; the
\* readers of the output pipes may have ended.
SpecStdinFair ==
    /\ StdinStart
    /\ [][NextStdin]_vars
    /\ WF_vars(ListenExit)
    /\ WF_vars(CloseJoin)
    /\ WF_vars(CloseFds)

SpecStdin == StdinStart /\ [][NextStdin]_vars

UndoStart ==
    InitUndo /\ BridgeIdle /\ RunIdle /\ AcquireIdle /\ ReadlineIdle /\ StdinIdle

SpecUndo == UndoStart /\ [][NextUndo]_vars

====
